---- MODULE Spec2Model ----
(***************************************************************************)
(* safe-env (src/src/index.ts): checkEnv, checkEnvSafe and checkEnvSource. *)
(*                                                                         *)
(* The state is what a caller holds around one call: the ambient map       *)
(* (process.env), an explicit map object, the required-name array and the  *)
(* options record, together with what the last call did (its locals, the   *)
(* Result it returned, the console/exit events it produced).               *)
(*                                                                         *)
(* JavaScript values are tagged records; objects are kept by reference     *)
(* ("env", "src", "requiredVars" name the caller's objects), so that       *)
(* aliasing and in-place mutation are expressible.  A plain object is the  *)
(* sequence of its own entries in Object.keys order; a property read falls *)
(* back to Object.prototype as `obj[key]` does.                            *)
(***************************************************************************)
EXTENDS Integers, Sequences, FiniteSets, TLC

VARIABLES env, src, requiredVars, options, pc, call, result, events

vars == <<env, src, requiredVars, options, pc, call, result, events>>

(***************************************************************************)
(* Bounds of the enumerated inputs.                                         *)
(***************************************************************************)
MaxKeys == 2
MaxReq == 2

(***************************************************************************)
(* JavaScript values.                                                       *)
(***************************************************************************)
Undefined == [t |-> "undefined"]
Str(s) == [t |-> "string", s |-> s]
Bool(b) == [t |-> "boolean", b |-> b]
Ref(r) == [t |-> "object", ref |-> r]

\* ToBoolean, as used by `!x`, `x || y` and `c ? a : b`.
Truthy(v) ==
    CASE v.t = "undefined" -> FALSE
      [] v.t = "string" -> v.s # ""
      [] v.t = "boolean" -> v.b
      [] OTHER -> TRUE

\* String.prototype.startsWith
startsWith(s, p) == Len(p) <= Len(s) /\ SubSeq(s, 1, Len(p)) = p

(***************************************************************************)
(* Plain objects: own entries in Object.keys order, prototype              *)
(* Object.prototype.                                                        *)
(***************************************************************************)
\* The property names every plain object (and process.env) inherits; of
\* these the name universe below contains "__proto__".
ObjectPrototypeKeys ==
    {"__proto__", "constructor", "toString", "valueOf", "hasOwnProperty"}

ObjectKeys(entries) == [i \in 1..Len(entries) |-> entries[i].k]

HasOwn(entries, k) == \E i \in 1..Len(entries) : entries[i].k = k

OwnGet(entries, k) == entries[CHOOSE i \in 1..Len(entries) : entries[i].k = k].v

\* obj[k]: the own value, else what Object.prototype holds under k.
Get(entries, k) ==
    IF HasOwn(entries, k) THEN OwnGet(entries, k)
    ELSE IF k \in ObjectPrototypeKeys THEN Ref("Object.prototype")
    ELSE Undefined

\* obj[k] = v for a string or undefined v: an own data property is written
\* or created, except that "__proto__" on an object without such an own
\* property runs the inherited setter, which ignores a non-object v.
Set(entries, k, v) ==
    IF HasOwn(entries, k)
    THEN [i \in 1..Len(entries) |->
            IF entries[i].k = k THEN [k |-> k, v |-> v] ELSE entries[i]]
    ELSE IF k = "__proto__" THEN entries
    ELSE Append(entries, [k |-> k, v |-> v])

\* Dereference of an object value in the heap h = [env, src, requiredVars].
Deref(h, o) ==
    CASE o.ref = "env" -> h.env
      [] o.ref = "src" -> h.src
      [] OTHER -> <<>>

(***************************************************************************)
(* formatErrorMessage: one block; a banner, a separator, one marked line   *)
(* per missing name, the separator again.  The glyphs of the banner and    *)
(* of the marker are written in ASCII.                                      *)
(***************************************************************************)
RECURSIVE JoinLines(_)
JoinLines(lines) ==
    IF Len(lines) = 0 THEN ""
    ELSE IF Len(lines) = 1 THEN lines[1]
    ELSE lines[1] \o "\n" \o JoinLines(Tail(lines))

formatErrorMessage(missing) ==
    "\n" \o "ENVIRONMENT VARIABLES MISSING" \o "\n"
         \o "-----------------------------------" \o "\n"
         \o JoinLines([i \in 1..Len(missing) |-> "x " \o missing[i]]) \o "\n"
         \o "-----------------------------------" \o "\n"

(***************************************************************************)
(* getEnvSource                                                             *)
(***************************************************************************)
\* Object.keys(envSource).forEach(key => { if (key.startsWith(prefix))
\*   filteredEnv[key] = envSource[key]; })
RECURSIVE forEachKey(_, _, _, _)
forEachKey(filteredEnv, envSource, keys, prefix) ==
    IF Len(keys) = 0 THEN filteredEnv
    ELSE forEachKey(
           IF startsWith(Head(keys), prefix)
           THEN Set(filteredEnv, Head(keys), Get(envSource, Head(keys)))
           ELSE filteredEnv,
           envSource, Tail(keys), prefix)

\* A getEnvSource that filters in place: it deletes from the base map the
\* keys that do not start with the prefix and hands the base map back.
getEnvSourceInPlace(source, prefix, h) ==
    LET envSource == IF Truthy(source) THEN source ELSE Ref("env")
        base == Deref(h, envSource)
        kept == SelectSeq(base, LAMBDA e : startsWith(e.k, prefix.s))
    IN  IF ~Truthy(prefix)
        THEN [ret |-> [ref |-> envSource.ref, entries |-> base], heap |-> h]
        ELSE [ret |-> [ref |-> envSource.ref, entries |-> kept],
              heap |-> [h EXCEPT ![envSource.ref] = kept]]

\* Returns the object handed back (its identity and its entries) and the
\* heap as the call leaves it.
getEnvSource(source, prefix, h) ==
    LET envSource == IF Truthy(source) THEN source ELSE Ref("env")
        base == Deref(h, envSource)
    IN  IF ~Truthy(prefix)
        THEN [ret |-> [ref |-> envSource.ref, entries |-> base], heap |-> h]
        ELSE [ret |-> [ref |-> "filteredEnv",
                       entries |-> forEachKey(<<>>, base, ObjectKeys(base), prefix.s)],
              heap |-> h]

(***************************************************************************)
(* checkEnv                                                                 *)
(***************************************************************************)
\* const { prefix, source, exitOnError = true } = options
exitOnErrorOf(opts) ==
    IF opts.exitOnError = Undefined THEN TRUE ELSE Truthy(opts.exitOnError)

\* prefix ? requiredVars.filter(v => v.startsWith(prefix)) : requiredVars
varsToCheckOf(requiredVarsArr, prefix) ==
    IF Truthy(prefix)
    THEN [ref |-> "varsToCheck",
          elems |-> SelectSeq(requiredVarsArr.elems, LAMBDA v : startsWith(v, prefix.s))]
    ELSE requiredVarsArr

\* varsToCheck.filter(v => !envSource[v])
missingOf(varsToCheck, envSource) ==
    [ref |-> "missing",
     elems |-> SelectSeq(varsToCheck.elems, LAMBDA v : ~Truthy(Get(envSource.entries, v)))]

\* A success that tolerates one missing name.
successOfAtMostOne(missing) == Len(missing.elems) <= 1

\* missing.length === 0
successOf(missing) == Len(missing.elems) = 0

\* A report that terminates with status 0.
reportOfExitZero(missing, success, exitOnError) ==
    LET first == IF ~success /\ exitOnError
                 THEN <<[op |-> "console.error", arg |-> formatErrorMessage(missing.elems)],
                        [op |-> "process.exit", code |-> 0]>>
                 ELSE <<>>
        second == IF ~success /\ ~exitOnError
                  THEN <<[op |-> "console.warn", arg |-> formatErrorMessage(missing.elems)]>>
                  ELSE <<>>
    IN  first \o second

\* A report whose second `if` tests only !exitOnError: it warns although
\* nothing is missing.
reportOfWarnsOnSuccess(missing, success, exitOnError) ==
    LET first == IF ~success /\ exitOnError
                 THEN <<[op |-> "console.error", arg |-> formatErrorMessage(missing.elems)],
                        [op |-> "process.exit", code |-> 1]>>
                 ELSE <<>>
        second == IF ~exitOnError
                  THEN <<[op |-> "console.warn", arg |-> formatErrorMessage(missing.elems)]>>
                  ELSE <<>>
    IN  first \o second

\* The two `if` statements after `success`: the events they produce, in
\* order.  process.exit does not return, so the second `if` is reached only
\* when the first did not fire.
reportOf(missing, success, exitOnError) ==
    LET first == IF ~success /\ exitOnError
                 THEN <<[op |-> "console.error", arg |-> formatErrorMessage(missing.elems)],
                        [op |-> "process.exit", code |-> 1]>>
                 ELSE <<>>
        exited == \E i \in 1..Len(first) : first[i].op = "process.exit"
        second == IF ~exited /\ ~success /\ ~exitOnError
                  THEN <<[op |-> "console.warn", arg |-> formatErrorMessage(missing.elems)]>>
                  ELSE <<>>
    IN  first \o second

checkEnv(requiredVarsArr, opts, h) ==
    LET prefix == opts.prefix
        source == opts.source
        exitOnError == exitOnErrorOf(opts)
        got == getEnvSource(source, prefix, h)
        envSource == got.ret
        varsToCheck == varsToCheckOf(requiredVarsArr, prefix)
        missing == missingOf(varsToCheck, envSource)
        success == successOf(missing)
        ev == reportOf(missing, success, exitOnError)
        exited == \E i \in 1..Len(ev) : ev[i].op = "process.exit"
    IN  [missing |-> missing, success |-> success, events |-> ev,
         returned |-> ~exited, heap |-> got.heap]

\* A checkEnvSafe that passes the caller's options on as they are.
checkEnvSafePassesOptions(requiredVarsArr, opts, h) ==
    checkEnv(requiredVarsArr, opts, h)

\* checkEnv(requiredVars, { ...options, exitOnError: false })
checkEnvSafe(requiredVarsArr, opts, h) ==
    checkEnv(requiredVarsArr, [opts EXCEPT !.exitOnError = Bool(FALSE)], h)

\* A checkEnvSource that also forces exitOnError to false.
checkEnvSourceNeverExits(source, opts, h) ==
    LET requiredVarsArr == [ref |-> "Object.keys", elems |-> ObjectKeys(Deref(h, source))]
    IN  checkEnv(requiredVarsArr,
                 [opts EXCEPT !.source = source, !.exitOnError = Bool(FALSE)], h)

\* checkEnv(Object.keys(source), { ...options, source })
checkEnvSource(source, opts, h) ==
    LET requiredVarsArr == [ref |-> "Object.keys", elems |-> ObjectKeys(Deref(h, source))]
    IN  checkEnv(requiredVarsArr, [opts EXCEPT !.source = source], h)

(***************************************************************************)
(* The inputs a caller may hold.                                            *)
(***************************************************************************)
\* The keys a map may hold: "_A" carries the prefix "_"; "A" does not, and
\* is "_A" without its prefix; "__proto__" carries the prefix and is a name
\* that every plain object inherits.
Keys == {"_A", "A", "__proto__"}

\* The names a caller may require: the keys, and "_B", which carries the
\* prefix and is in no map.
Names == Keys \cup {"_B"}

\* A property of Record<string, string | undefined>: undefined, "" or a
\* non-empty string.
Values == {Undefined, Str(""), Str("v")}

Entries == [k : Keys, v : Values]

\* Plain objects with at most MaxKeys own properties, in any key order.
Maps ==
    UNION {{m \in [1..n -> Entries] :
              \A i, j \in 1..n : m[i].k = m[j].k => i = j} : n \in 0..MaxKeys}

\* Required-name arrays of at most MaxReq names, duplicates allowed.
Lists == UNION {[1..n -> Names] : n \in 0..MaxReq}

\* options.prefix: omitted, the empty string, or a prefix.
Prefixes == {Undefined, Str(""), Str("_")}

\* options.exitOnError: omitted, true or false.
ExitOpts == {Undefined, Bool(TRUE), Bool(FALSE)}

\* The object that is not being enumerated in a given initial state.
OtherMap == <<[k |-> "_A", v |-> Str("v")], [k |-> "A", v |-> Str("")]>>

Heap == [env |-> env, src |-> src, requiredVars |-> requiredVars]

NoCall == [entry |-> "none", missing |-> [ref |-> "none", elems |-> <<>>], success |-> TRUE]

\* Either the ambient map is enumerated and options.source is omitted, or
\* the explicit map is enumerated and options.source is that map, or the
\* explicit map is enumerated and options.source is process.env itself.
Init ==
    /\ \E m \in Maps, s \in {Undefined, Ref("src"), Ref("env")}, p \in Prefixes, x \in ExitOpts :
         /\ env = IF s = Undefined THEN m ELSE OtherMap
         /\ src = IF s = Undefined THEN OtherMap ELSE m
         /\ options = [prefix |-> p, source |-> s, exitOnError |-> x]
    /\ requiredVars \in Lists
    /\ pc = "idle"
    /\ call = NoCall
    /\ result = Undefined
    /\ events = <<>>

\* What a call leaves behind: the heap, the locals of checkEnv, the events,
\* and the Result unless the process was terminated.
Finish(entry, r) ==
    /\ env' = r.heap.env
    /\ src' = r.heap.src
    /\ requiredVars' = r.heap.requiredVars
    /\ call' = [entry |-> entry, missing |-> r.missing, success |-> r.success]
    /\ events' = r.events
    /\ result' = IF r.returned THEN [missing |-> r.missing, success |-> r.success]
                 ELSE Undefined
    /\ pc' = IF r.returned THEN "returned" ELSE "exited"
    /\ UNCHANGED options

\* checkEnv(requiredVars, options)
CallCheckEnv ==
    /\ pc # "exited"
    /\ Finish("checkEnv",
              checkEnv([ref |-> "requiredVars", elems |-> requiredVars], options, Heap))

\* checkEnvSafe(requiredVars, options)
CallCheckEnvSafe ==
    /\ pc # "exited"
    /\ Finish("checkEnvSafe",
              checkEnvSafe([ref |-> "requiredVars", elems |-> requiredVars], options, Heap))

\* checkEnvSource(src, options)
CallCheckEnvSource ==
    /\ pc # "exited"
    /\ Finish("checkEnvSource", checkEnvSource(Ref("src"), options, Heap))

Next == CallCheckEnv \/ CallCheckEnvSafe \/ CallCheckEnvSource

Spec == Init /\ [][Next]_vars

(***************************************************************************)
(* Vocabulary of the properties.                                            *)
(***************************************************************************)
\* The map a checkEnv or checkEnvSafe call is asked to inspect.
GivenSource ==
    IF options.source = Undefined THEN env ELSE Deref(Heap, options.source)

\* The name is no key of the map, or is a key mapped to undefined or "".
AbsentOrEmpty(entries, k) ==
    ~HasOwn(entries, k) \/ OwnGet(entries, k) \in {Undefined, Str("")}

PrefixGiven == options.prefix.t = "string" /\ options.prefix.s # ""

\* exitOnError passed as true, or omitted.
ExitRequested == options.exitOnError \in {Undefined, Bool(TRUE)}

Returned == pc = "returned" /\ result # Undefined

Terminated == \E i \in 1..Len(events) : events[i].op = "process.exit"

Diagnostics ==
    SelectSeq(events, LAMBDA e : e.op \in {"console.error", "console.warn"})

ErrorBlock == [op |-> "console.error", arg |-> formatErrorMessage(call.missing.elems)]

WarnBlock == [op |-> "console.warn", arg |-> formatErrorMessage(call.missing.elems)]

(***************************************************************************)
(* C1                                                                       *)
(***************************************************************************)
\* C1: a call to checkEnvSafe never invokes process.exit and returns a
\* Result, whatever exitOnError the caller passed and even when names are
\* missing.
C1_SafeNeverTerminates ==
    call.entry = "checkEnvSafe" => ~Terminated /\ Returned

C1_Witness ==
    /\ call.entry = "checkEnvSafe"
    /\ options.exitOnError = Bool(TRUE)
    /\ Returned
    /\ Len(result.missing.elems) > 0

(***************************************************************************)
(* C2                                                                       *)
(***************************************************************************)
\* C2: with no prefix and exitOnError = false, checkEnv returns as missing
\* exactly the subsequence of requiredVars whose name is absent from the
\* source or mapped to undefined or "": order kept, one entry per
\* occurrence, no name with a non-empty value.
C2_MissingIsTheAbsentOrEmptySubsequence ==
    (/\ call.entry = "checkEnv"
     /\ options.prefix = Undefined
     /\ options.exitOnError = Bool(FALSE))
    => /\ Returned
       /\ result.missing.elems =
            SelectSeq(requiredVars, LAMBDA v : AbsentOrEmpty(GivenSource, v))

\* The same statement for required names that no object inherits: the code
\* satisfies it.
C2_HoldsOffInheritedNames ==
    (/\ call.entry = "checkEnv"
     /\ options.prefix = Undefined
     /\ options.exitOnError = Bool(FALSE)
     /\ \A i \in 1..Len(requiredVars) : requiredVars[i] \notin ObjectPrototypeKeys)
    => /\ Returned
       /\ result.missing.elems =
            SelectSeq(requiredVars, LAMBDA v : AbsentOrEmpty(GivenSource, v))

(***************************************************************************)
(* C3                                                                       *)
(***************************************************************************)
\* C3: with a non-empty prefix, a required name that does not start with
\* the prefix is never in missing, and one that does is in missing exactly
\* when it is absent from the source or mapped to undefined or "".
C3_PrefixFiltersNamesAndSource ==
    (/\ call.entry \in {"checkEnv", "checkEnvSafe"}
     /\ PrefixGiven)
    => call.missing.elems =
         SelectSeq(requiredVars,
                   LAMBDA v : /\ startsWith(v, options.prefix.s)
                              /\ AbsentOrEmpty(GivenSource, v))

\* The same statement for required names that no object inherits: the code
\* satisfies it.
C3_HoldsOffInheritedNames ==
    (/\ call.entry \in {"checkEnv", "checkEnvSafe"}
     /\ PrefixGiven
     /\ \A i \in 1..Len(requiredVars) : requiredVars[i] \notin ObjectPrototypeKeys)
    => call.missing.elems =
         SelectSeq(requiredVars,
                   LAMBDA v : /\ startsWith(v, options.prefix.s)
                              /\ AbsentOrEmpty(GivenSource, v))

(***************************************************************************)
(* C4                                                                       *)
(***************************************************************************)
\* C4: when names are missing and exitOnError is true or omitted, a call to
\* checkEnv or checkEnvSource emits the block once, on console.error, and
\* only then calls process.exit(1); nothing goes to console.warn; and
\* process.exit is never called with another status or before the block.
C4_ErrorBlockThenExitOne ==
    /\ (/\ call.entry \in {"checkEnv", "checkEnvSource"}
        /\ Len(call.missing.elems) > 0
        /\ ExitRequested)
       => /\ events = <<ErrorBlock, [op |-> "process.exit", code |-> 1]>>
          /\ pc = "exited"
    /\ \A i \in 1..Len(events) :
         events[i].op = "process.exit"
         => /\ events[i].code = 1
            /\ i = 2
            /\ events[1] = ErrorBlock

C4_Witness ==
    /\ call.entry = "checkEnvSource"
    /\ options.exitOnError = Undefined
    /\ Len(call.missing.elems) > 0
    /\ pc = "exited"

(***************************************************************************)
(* C5                                                                       *)
(***************************************************************************)
\* C5: for every map and every options value, a prefix included,
\* checkEnvSource finds missing, in the map's key order, exactly the keys
\* mapped to undefined or "", a source in options being overridden.
C5_EveryKeyIsRequired ==
    call.entry = "checkEnvSource"
    => call.missing.elems =
         SelectSeq(ObjectKeys(src), LAMBDA k : AbsentOrEmpty(src, k))

\* Without a prefix the code satisfies it.
C5_HoldsWithoutPrefix ==
    (call.entry = "checkEnvSource" /\ ~PrefixGiven)
    => call.missing.elems =
         SelectSeq(ObjectKeys(src), LAMBDA k : AbsentOrEmpty(src, k))

\* With a prefix the keys that do not start with it are dropped; among the
\* keys that no object inherits the code then reports the empty ones.
C5_WithPrefixOffInheritedNames ==
    (call.entry = "checkEnvSource" /\ PrefixGiven)
    => call.missing.elems =
         SelectSeq(ObjectKeys(src),
                   LAMBDA k : /\ startsWith(k, options.prefix.s)
                              /\ k \notin ObjectPrototypeKeys
                              /\ AbsentOrEmpty(src, k))

(***************************************************************************)
(* C6                                                                       *)
(***************************************************************************)
\* C6: in every Result returned by any of the three entry points, success
\* is true exactly when missing is empty; an empty required-name list gives
\* success = true and missing = [].
C6_SuccessIffNothingMissing ==
    /\ result # Undefined => (result.success <=> Len(result.missing.elems) = 0)
    /\ (call.entry \in {"checkEnv", "checkEnvSafe"} /\ requiredVars = <<>>)
       => /\ Returned
          /\ result.success
          /\ result.missing.elems = <<>>

C6_Witness ==
    /\ call.entry = "checkEnvSource"
    /\ Returned
    /\ ~result.success
    /\ Len(result.missing.elems) = 1

(***************************************************************************)
(* C7                                                                       *)
(***************************************************************************)
\* C7 as stated: neither checkEnvSafe nor checkEnvSource ever invokes
\* process.exit.
C7_OnlyCheckEnvTerminates ==
    call.entry \in {"checkEnvSafe", "checkEnvSource"} => ~Terminated

\* C7 as amended: checkEnvSafe never invokes process.exit; checkEnvSource
\* does, through checkEnv, exactly when names are missing and exitOnError
\* is true or omitted.
C7_SafeNeverSourceWhenRequested ==
    /\ call.entry = "checkEnvSafe" => ~Terminated
    /\ call.entry = "checkEnvSource"
       => (Terminated <=> (Len(call.missing.elems) > 0 /\ ExitRequested))

C7_Witness ==
    /\ call.entry = "checkEnvSource"
    /\ Terminated
    /\ pc = "exited"
    /\ result = Undefined

(***************************************************************************)
(* C8                                                                       *)
(***************************************************************************)
\* C8: a call with nothing missing emits nothing and does not terminate,
\* whatever exitOnError is; a call with names missing and exitOnError false
\* emits exactly one block, on console.warn, does not terminate and returns
\* the Result; no call emits more than one block.
C8_EmissionPolicy ==
    call.entry # "none"
    => /\ Len(call.missing.elems) = 0 => (events = <<>> /\ Returned)
       /\ (/\ Len(call.missing.elems) > 0
           /\ (call.entry = "checkEnvSafe" \/ options.exitOnError = Bool(FALSE)))
          => (events = <<WarnBlock>> /\ Returned /\ ~result.success)
       /\ Len(Diagnostics) <= 1

C8_Witness ==
    /\ call.entry = "checkEnv"
    /\ options.exitOnError = Bool(FALSE)
    /\ Len(call.missing.elems) = 2
    /\ events = <<WarnBlock>>

(***************************************************************************)
(* C9                                                                       *)
(***************************************************************************)
\* C9: with a prefix, required names are given without it and checked as
\* prefix + name: when every prefix + name is absent from the source or
\* empty, checkEnvSafe reports failure.
C9_NamesAreCheckedWithPrefixPrepended ==
    (/\ call.entry = "checkEnvSafe"
     /\ PrefixGiven
     /\ Len(requiredVars) > 0
     /\ \A i \in 1..Len(requiredVars) :
          /\ ~startsWith(requiredVars[i], options.prefix.s)
          /\ AbsentOrEmpty(GivenSource, options.prefix.s \o requiredVars[i]))
    => /\ Returned
       /\ ~result.success
       /\ Len(result.missing.elems) > 0

(***************************************************************************)
(* C10                                                                      *)
(***************************************************************************)
\* C10: no call changes the ambient map, the explicit map, the options or
\* the required-name array, and the missing array of a returned Result is
\* never the caller's required-name array itself.
C10_InputsAreNotMutated ==
    [][/\ env' = env
       /\ src' = src
       /\ requiredVars' = requiredVars
       /\ options' = options
       /\ result' # Undefined => result'.missing.ref # "requiredVars"]_vars

C10_Witness ==
    /\ call.entry = "checkEnv"
    /\ PrefixGiven
    /\ Returned
    /\ ~result.success
    /\ \E i \in 1..Len(GivenSource) : ~startsWith(GivenSource[i].k, options.prefix.s)
====
